---- MODULE Spec2Model ----
(***************************************************************************)
(* Model of the kahan crate (src/src/lib.rs): the KahanSum<T: Float>       *)
(* accumulator with its two addition operators, and the KahanSummator      *)
(* iterator extension.                                                     *)
(*                                                                         *)
(* The numeric type T is instantiated by a small binary floating-point     *)
(* format with Precision significand bits, exponents 0..EMax, signed       *)
(* zeros, two infinities and NaN, and round-to-nearest-even arithmetic.    *)
(* A finite value is sign * mag with mag an integer multiple of the unit   *)
(* in the last place of the smallest binade, so values below 2^Precision   *)
(* are exact (they play the role of the subnormal/first binade range).     *)
(***************************************************************************)
EXTENDS Integers, Sequences, FiniteSets

\* ------------------------------------------------------------------------
\* Bounds of the model
\* ------------------------------------------------------------------------
\* Significand width of the modelled instantiation of T.
Precision == 3
\* Largest exponent of the modelled instantiation of T.
EMax == 3
\* Largest number of terms added to one accumulator.
MaxTerms == 2
\* Largest number of items of an iterator handed to kahan_sum.
MaxIter == 4

\* ------------------------------------------------------------------------
\* The numeric type T: Float
\* ------------------------------------------------------------------------
RECURSIVE Pow2(_)
Pow2(n) == IF n = 0 THEN 1 ELSE 2 * Pow2(n - 1)

MaxFinite == (Pow2(Precision) - 1) * Pow2(EMax)

Fin(sign, mag) == [k |-> "fin", s |-> sign, m |-> mag]
Zero == Fin(0, 0)
NegZero == Fin(1, 0)
Inf(sign) == [k |-> "inf", s |-> sign, m |-> 0]
NaN == [k |-> "nan", s |-> 0, m |-> 0]

\* The finite value of an integer, with the sign of +0 for 0.
OfInt(i) == IF i < 0 THEN Fin(1, 0 - i) ELSE Fin(0, i)

IsNaN(x) == x.k = "nan"
IsInf(x) == x.k = "inf"
IsFinite(x) == x.k = "fin"

\* The mathematical value of a finite float (both zeros are 0).
Val(x) == IF x.s = 1 THEN 0 - x.m ELSE x.m

\* Smallest e >= 0 with n < 2^(Precision + e): the exponent of magnitude n.
RECURSIVE ExpOf(_, _)
ExpOf(n, e) == IF n < Pow2(Precision + e) THEN e ELSE ExpOf(n, e + 1)

\* Round-to-nearest, ties-to-even, of the non-zero exact result r; a result
\* beyond the largest finite value overflows to the infinity of its sign.
Round(r) ==
    LET sign == IF r < 0 THEN 1 ELSE 0
        n    == IF r < 0 THEN 0 - r ELSE r
        e    == ExpOf(n, 0)
        ulp  == Pow2(e)
        q    == n \div ulp
        rem  == n % ulp
        up   == (2 * rem > ulp) \/ (2 * rem = ulp /\ q % 2 = 1)
        mag  == (IF up THEN q + 1 ELSE q) * ulp
    IN  IF mag > MaxFinite THEN Inf(sign) ELSE Fin(sign, mag)

\* Whether the integer i is a value of the format.
Representable(i) == Round(i) = OfInt(i)

\* The magnitudes of the format, and its values.
Magnitudes == {n \in 0..MaxFinite : Representable(n)}
Values ==
    {Fin(s, n) : s \in {0, 1}, n \in Magnitudes} \cup {Inf(0), Inf(1), NaN}

\* -x
FNeg(x) == IF IsNaN(x) THEN NaN ELSE [x EXCEPT !.s = 1 - x.s]

\* x.abs()
FAbs(x) == IF IsNaN(x) THEN NaN ELSE [x EXCEPT !.s = 0]

\* x + y
FAdd(x, y) ==
    IF IsNaN(x) \/ IsNaN(y) THEN NaN
    ELSE IF IsInf(x) THEN (IF IsInf(y) /\ y.s # x.s THEN NaN ELSE x)
    ELSE IF IsInf(y) THEN y
    ELSE LET r == Val(x) + Val(y)
         IN  IF r = 0
             THEN (IF x.s = 1 /\ y.s = 1 THEN NegZero ELSE Zero)
             ELSE Round(r)

\* x - y
FSub(x, y) == FAdd(x, FNeg(y))

\* x < y  (false when either is NaN; the two zeros are equal)
FLt(x, y) ==
    IF IsNaN(x) \/ IsNaN(y) THEN FALSE
    ELSE IF IsInf(x) THEN (x.s = 1 /\ ~(IsInf(y) /\ y.s = 1))
    ELSE IF IsInf(y) THEN y.s = 0
    ELSE Val(x) < Val(y)

\* x == y  (false when either is NaN; the two zeros are equal)
FEq(x, y) ==
    IF IsNaN(x) \/ IsNaN(y) THEN FALSE
    ELSE IF IsInf(x) \/ IsInf(y) THEN x = y
    ELSE Val(x) = Val(y)

\* ------------------------------------------------------------------------
\* State
\* ------------------------------------------------------------------------
VARIABLES
    sum,      \* KahanSum.sum of the accumulator under construction
    err,      \* KahanSum.err of the accumulator under construction
    initial,  \* the sum the accumulator was constructed with
    terms,    \* the terms added to the accumulator so far, in order
    op,       \* the operation that produced the accumulator's current state
    iter,     \* the items of the iterator last handed to kahan_sum
    ret       \* <<r>> once kahan_sum has returned the KahanSum r, else <<>>

vars == <<sum, err, initial, terms, op, iter, ret>>

\* ------------------------------------------------------------------------
\* KahanSum<T>
\* ------------------------------------------------------------------------
KahanSum(s, e) == [sum |-> s, err |-> e]

default == KahanSum(Zero, Zero)

new == default

\* Variant of new_with_value: err seeded with the initial value too.
new_with_value_err(v) == KahanSum(v, v)

new_with_value(v) == KahanSum(v, Zero)

\* Variant of swap: the operands are never exchanged (textbook Kahan).
swap_never(self_sum, rhs) == <<self_sum, rhs>>

\* Variant of swap: the comparison is reversed, so the operand of smaller
\* magnitude becomes the base.
swap_reversed(self_sum, rhs) ==
    IF FLt(FAbs(rhs), FAbs(self_sum)) THEN <<rhs, self_sum>> ELSE <<self_sum, rhs>>

\* The state after the conditional swap(&mut self.sum, &mut rhs):
\* <<self.sum, rhs>>.
swap(self_sum, rhs) ==
    IF FLt(FAbs(self_sum), FAbs(rhs)) THEN <<rhs, self_sum>> ELSE <<self_sum, rhs>>

\* Variant of add_assign: a non-finite term replaces the accumulator instead
\* of going through the compensated addition.
add_assign_special(self, rhs0) ==
    IF ~IsFinite(rhs0) THEN KahanSum(rhs0, Zero)
    ELSE LET sw       == swap(self.sum, rhs0)
             self_sum == sw[1]
             rhs      == sw[2]
             y        == FSub(rhs, self.err)
             new_sum  == FAdd(self_sum, y)
             new_err  == FSub(FSub(new_sum, self_sum), y)
         IN  KahanSum(new_sum, new_err)

\* Variant of add_assign: a NaN error term is dropped before it is used.
add_assign_sanitised(self, rhs0) ==
    LET sw       == swap(self.sum, rhs0)
        self_sum == sw[1]
        rhs      == sw[2]
        e        == IF IsNaN(self.err) THEN Zero ELSE self.err
        y        == FSub(rhs, e)
        new_sum  == FAdd(self_sum, y)
        new_err  == FSub(FSub(new_sum, self_sum), y)
    IN  KahanSum(new_sum, new_err)

\* Variant of add_assign: the previous error is added to the term instead of
\* subtracted from it.
add_assign_plus_err(self, rhs0) ==
    LET sw       == swap(self.sum, rhs0)
        self_sum == sw[1]
        rhs      == sw[2]
        y        == FAdd(rhs, self.err)
        new_sum  == FAdd(self_sum, y)
        new_err  == FSub(FSub(new_sum, self_sum), y)
    IN  KahanSum(new_sum, new_err)

\* Variant of add_assign: the new error is taken against the term as given,
\* not against the compensated term y.
add_assign_err_of_rhs(self, rhs0) ==
    LET sw       == swap(self.sum, rhs0)
        self_sum == sw[1]
        rhs      == sw[2]
        y        == FSub(rhs, self.err)
        new_sum  == FAdd(self_sum, y)
        new_err  == FSub(FSub(new_sum, self_sum), rhs)
    IN  KahanSum(new_sum, new_err)

\* Variant of add_assign: the new error omits the subtraction of y.
add_assign_no_y(self, rhs0) ==
    LET sw       == swap(self.sum, rhs0)
        self_sum == sw[1]
        rhs      == sw[2]
        y        == FSub(rhs, self.err)
        new_sum  == FAdd(self_sum, y)
        new_err  == FSub(new_sum, self_sum)
    IN  KahanSum(new_sum, new_err)

\* self += rhs
add_assign(self, rhs0) ==
    LET sw       == swap(self.sum, rhs0)
        self_sum == sw[1]
        rhs      == sw[2]
        y        == FSub(rhs, self.err)
        new_sum  == FAdd(self_sum, y)
        new_err  == FSub(FSub(new_sum, self_sum), y)
    IN  KahanSum(new_sum, new_err)

\* Variant of add: the addition is applied to a temporary and the receiver
\* is returned as it was.
add_returns_self(self, rhs) == self

\* self + rhs
add(self, rhs) ==
    LET rv == self
    IN  add_assign(rv, rhs)

\* Iterator::fold(init, |sum, item| sum + item) over the items of it.
RECURSIVE fold(_, _)
fold(init, it) ==
    IF it = <<>> THEN init ELSE fold(add(init, Head(it)), Tail(it))

\* Variant of kahan_sum: the first item of the iterator is skipped.
kahan_sum_skip_first(it) == IF it = <<>> THEN new ELSE fold(new, Tail(it))

\* iter.kahan_sum()
kahan_sum(it) == fold(new, it)

\* ------------------------------------------------------------------------
\* Inputs
\* ------------------------------------------------------------------------
\* Magnitudes of the terms a caller adds: zero, the smallest values, the
\* largest exactly spaced value, a value of the first rounded binade and the
\* largest finite value.
TermMagnitudes == {0, 1, 3, Pow2(Precision) - 1, Pow2(Precision) + 2, MaxFinite}

Terms ==
    {Fin(s, n) : s \in {0, 1}, n \in TermMagnitudes} \cup {Inf(0), Inf(1), NaN}

\* Items of the iterators handed to kahan_sum: three large values of the
\* rounded binades and small values (below 2^Precision) of either sign.
Summands ==
    {Fin(0, Pow2(Precision) + 2), Fin(0, Pow2(Precision) + 4),
     Fin(0, Pow2(Precision + 2)),
     Fin(0, 1), Fin(0, 3), Fin(0, Pow2(Precision - 1)),
     Fin(0, Pow2(Precision) - 2), Fin(0, Pow2(Precision) - 1),
     Fin(1, 1), Fin(1, 3)}

SeqsUpTo(S, n) == UNION {[1..k -> S] : k \in 0..n}

\* ------------------------------------------------------------------------
\* A caller building one accumulator
\* ------------------------------------------------------------------------
Init ==
    /\ \E k \in {new} \cup {new_with_value(v) : v \in Terms} :
          /\ sum = k.sum
          /\ err = k.err
          /\ initial = k.sum
    /\ terms = <<>>
    /\ op = "new"
    /\ iter = <<>>
    /\ ret = <<>>

\* acc += rhs
AddAssign(rhs) ==
    /\ Len(terms) < MaxTerms
    /\ LET r == add_assign(KahanSum(sum, err), rhs)
       IN  /\ sum' = r.sum
           /\ err' = r.err
    /\ terms' = Append(terms, rhs)
    /\ op' = "add_assign"
    /\ UNCHANGED <<initial, iter, ret>>

\* acc = acc + rhs
Add(rhs) ==
    /\ Len(terms) < MaxTerms
    /\ LET r == add(KahanSum(sum, err), rhs)
       IN  /\ sum' = r.sum
           /\ err' = r.err
    /\ terms' = Append(terms, rhs)
    /\ op' = "add"
    /\ UNCHANGED <<initial, iter, ret>>

\* terms.iter().kahan_sum(), over the terms added so far
KahanSumOfTerms ==
    /\ ret = <<>>
    /\ iter' = terms
    /\ ret' = <<kahan_sum(terms)>>
    /\ UNCHANGED <<sum, err, initial, terms, op>>

Next ==
    \/ \E rhs \in Terms : AddAssign(rhs)
    \/ \E rhs \in Terms : Add(rhs)
    \/ KahanSumOfTerms

Spec == Init /\ [][Next]_vars

\* ------------------------------------------------------------------------
\* A caller reducing one iterator
\* ------------------------------------------------------------------------
InitSum ==
    /\ sum = new.sum
    /\ err = new.err
    /\ initial = new.sum
    /\ terms = <<>>
    /\ op = "new"
    /\ iter \in SeqsUpTo(Summands, MaxIter)
    /\ ret = <<>>

\* iter.kahan_sum()
KahanSumCall ==
    /\ ret = <<>>
    /\ ret' = <<kahan_sum(iter)>>
    /\ UNCHANGED <<sum, err, initial, terms, op, iter>>

NextSum == KahanSumCall

SpecSum == InitSum /\ [][NextSum]_vars

\* ------------------------------------------------------------------------
\* Reference notions used by the properties
\* ------------------------------------------------------------------------
\* The accumulator as a KahanSum value.
Acc == KahanSum(sum, err)

Last(s) == s[Len(s)]

Abs(i) == IF i < 0 THEN 0 - i ELSE i

\* A step that added a term to the accumulator (acc += t or acc = acc + t).
Added == terms' # terms

\* The exact mathematical total of finite terms.
RECURSIVE ExactSum(_)
ExactSum(s) == IF s = <<>> THEN 0 ELSE Val(Head(s)) + ExactSum(Tail(s))

\* Plain left-to-right floating-point addition of the terms s onto a.
RECURSIVE NaiveSum(_, _)
NaiveSum(a, s) == IF s = <<>> THEN a ELSE NaiveSum(FAdd(a, Head(s)), Tail(s))

\* Whether the add of t to the accumulator state a exchanges the operands.
SwapTaken(a, t) == FLt(FAbs(a.sum), FAbs(t))

\* ------------------------------------------------------------------------
\* C1: acc + t and acc += t give the same (sum, err)
\* ------------------------------------------------------------------------
\* C1: every step that adds a term t, in either form and after any mix of
\* earlier additions, leaves the accumulator in the state that both the
\* value-returning addition and the in-place addition compute from the
\* state before the step.
C1_PlusEqualsAddAssign ==
    [][Added =>
         LET t == Last(terms')
         IN  /\ KahanSum(sum', err') = add(Acc, t)
             /\ KahanSum(sum', err') = add_assign(Acc, t)]_vars

\* A value-returning addition that followed another addition and left a
\* non-zero error term.
C1_Witness ==
    /\ op = "add"
    /\ Len(terms) = 2
    /\ IsFinite(err)
    /\ Val(err) # 0

\* ------------------------------------------------------------------------
\* C2: kahan_sum is the left-to-right fold from the empty accumulator
\* ------------------------------------------------------------------------
\* C2: when kahan_sum has been called on the very terms that were added, in
\* order, one by one to an accumulator created empty, it returned that
\* accumulator's state; on no terms it returned sum = 0, err = 0.
C2_KahanSumIsFold ==
    (ret # <<>> /\ iter = terms /\ initial = Zero) =>
        /\ ret[1] = Acc
        /\ (iter = <<>> => ret[1] = KahanSum(Zero, Zero))

\* kahan_sum returned for two terms whose sum was rounded.
C2_Witness ==
    /\ ret # <<>>
    /\ iter = terms
    /\ initial = Zero
    /\ Len(terms) = 2
    /\ IsFinite(ret[1].err)
    /\ Val(ret[1].err) # 0

\* ------------------------------------------------------------------------
\* C3: new_with_value(v) against new() followed by one add of v
\* ------------------------------------------------------------------------
\* C3 as stated: for every value v, new() followed by add(v) has the sum of
\* new_with_value(v), equal to v, and both have err == 0.
C3_Original ==
    (initial = Zero /\ Len(terms) = 1) =>
        LET v == terms[1]
            w == new_with_value(v)
        IN  /\ FEq(sum, w.sum)
            /\ FEq(sum, v)
            /\ FEq(err, Zero)
            /\ FEq(w.err, Zero)

\* C3 amended: new_with_value(v) always has err == 0.  For finite v, new()
\* followed by add(v) has the same sum, equal to v, and err == 0.  For
\* infinite v the sums are still equal to v but the added accumulator has
\* err = NaN; for NaN both sums are NaN and the added accumulator has
\* err = NaN.
C3_SeededEquivalence ==
    (initial = Zero /\ Len(terms) = 1) =>
        LET v == terms[1]
            w == new_with_value(v)
        IN  /\ FEq(w.err, Zero)
            /\ IsFinite(v) => FEq(sum, w.sum) /\ FEq(sum, v) /\ FEq(err, Zero)
            /\ IsInf(v) => FEq(sum, w.sum) /\ FEq(sum, v) /\ IsNaN(err)
            /\ IsNaN(v) => IsNaN(sum) /\ IsNaN(w.sum) /\ IsNaN(err)

\* One non-zero finite value added to an empty accumulator.
C3_Witness ==
    /\ initial = Zero
    /\ Len(terms) = 1
    /\ IsFinite(terms[1])
    /\ Val(terms[1]) # 0
    /\ FEq(sum, terms[1])

\* ------------------------------------------------------------------------
\* C4: infinite and NaN terms
\* ------------------------------------------------------------------------
\* C4 as stated: once an infinite term has been added among otherwise
\* finite terms (all infinite terms of one sign), the sum is what plain
\* left-to-right addition of the same terms gives, that infinity; once a NaN
\* term has been added the sum is NaN.
C4_Original ==
    LET infs == {i \in 1..Len(terms) : IsInf(terms[i])}
    IN  /\ ( /\ IsFinite(initial)
             /\ infs # {}
             /\ \A i \in 1..Len(terms) : IsFinite(terms[i]) \/ IsInf(terms[i])
             /\ \A i, j \in infs : terms[i] = terms[j] )
           => /\ IsInf(NaiveSum(initial, terms))
              /\ sum = NaiveSum(initial, terms)
        /\ (\E i \in 1..Len(terms) : IsNaN(terms[i])) => IsNaN(sum)

\* C4 amended: every add yields values of the numeric type (no operation
\* fails).  Adding NaN makes the sum NaN.  Adding an infinite term to an
\* accumulator whose sum and err are finite makes the sum that infinity, as
\* plain addition does, and leaves err = NaN; every add after that makes the
\* sum NaN, where plain addition would keep the infinity.
C4_SpecialValues ==
    [][Added =>
         LET t == Last(terms')
         IN  /\ sum' \in Values
             /\ err' \in Values
             /\ IsNaN(t) => IsNaN(sum')
             /\ (IsInf(t) /\ IsFinite(sum) /\ IsFinite(err)) =>
                    /\ sum' = t
                    /\ sum' = FAdd(sum, t)
                    /\ IsNaN(err')
             /\ (IsInf(sum) /\ IsNaN(err)) => IsNaN(sum')]_vars

\* An infinite term followed by a finite one: the sum is NaN although plain
\* addition of the same terms gives the infinity.
C4_Witness ==
    /\ Len(terms) = 2
    /\ IsFinite(initial)
    /\ IsInf(terms[1])
    /\ IsFinite(terms[2])
    /\ IsNaN(sum)
    /\ NaiveSum(initial, terms) = terms[1]

\* ------------------------------------------------------------------------
\* C7: the magnitude-ordering step of every add
\* ------------------------------------------------------------------------
\* C7: every step that adds a term t to the state (sum, err) takes as base a
\* the term t if |sum| < |t| strictly and the stored sum otherwise, b being
\* the other operand, and produces new_sum = a + (b - err) and
\* new_err = (new_sum - a) - (b - err); this on every add, not only the first.
C7_SwapPerTerm ==
    [][Added =>
         LET t       == Last(terms')
             swapped == FLt(FAbs(sum), FAbs(t))
             a       == IF swapped THEN t ELSE sum
             b       == IF swapped THEN sum ELSE t
         IN  /\ sum' = FAdd(a, FSub(b, err))
             /\ err' = FSub(FSub(sum', a), FSub(b, err))]_vars

\* Two adds of finite terms: no swap on the first, a swap on the second, and
\* a rounded sum.
C7_Witness ==
    /\ Len(terms) = 2
    /\ IsFinite(initial)
    /\ ~SwapTaken(new_with_value(initial), terms[1])
    /\ SwapTaken(add_assign(new_with_value(initial), terms[1]), terms[2])
    /\ IsFinite(err)
    /\ Val(err) # 0

\* ------------------------------------------------------------------------
\* C8: exact arithmetic
\* ------------------------------------------------------------------------
\* Every operation on the history was exact: the initial value and the terms
\* are finite and every partial exact total is a value of the format.
ExactHistory ==
    /\ IsFinite(initial)
    /\ \A i \in 1..Len(terms) : IsFinite(terms[i])
    /\ \A n \in 0..Len(terms) :
          Representable(Val(initial) + ExactSum(SubSeq(terms, 1, n)))

\* C8: when no addition or subtraction rounds, err is 0 and sum is the exact
\* total of the initial value and the terms added, swap or no swap.
C8_ExactArithmetic ==
    ExactHistory =>
        /\ FEq(err, Zero)
        /\ IsFinite(sum)
        /\ Val(sum) = Val(initial) + ExactSum(terms)

\* Two exact adds to a seeded accumulator, the first with a swap, the second
\* without, and a non-zero total.
C8_Witness ==
    /\ ExactHistory
    /\ Len(terms) = 2
    /\ Val(initial) # 0
    /\ SwapTaken(new_with_value(initial), terms[1])
    /\ ~SwapTaken(add_assign(new_with_value(initial), terms[1]), terms[2])
    /\ Val(terms[2]) # 0
    /\ Val(sum) # 0

\* ------------------------------------------------------------------------
\* C9: NaN is absorbing
\* ------------------------------------------------------------------------
\* C9: an add to an accumulator whose sum or err is NaN leaves both sum and
\* err NaN, whatever the term; so no later term restores a non-NaN sum.
C9_NaNAbsorbing ==
    [][(Added /\ (IsNaN(sum) \/ IsNaN(err))) =>
         (IsNaN(sum') /\ IsNaN(err'))]_vars

\* An infinite term left err = NaN and the add of a finite term after it
\* made both fields NaN.
C9_Witness ==
    /\ Len(terms) = 2
    /\ IsFinite(initial)
    /\ IsInf(terms[1])
    /\ IsNaN(add_assign(new_with_value(initial), terms[1]).err)
    /\ IsFinite(terms[2])
    /\ IsNaN(sum)
    /\ IsNaN(err)

\* ------------------------------------------------------------------------
\* C10: two finite terms in either order
\* ------------------------------------------------------------------------
\* C10: kahan_sum over two finite terms returns the same (sum, err) as
\* kahan_sum over the same two terms in the other order.
C10_PairOrder ==
    (ret # <<>> /\ Len(iter) = 2 /\ IsFinite(iter[1]) /\ IsFinite(iter[2])) =>
        ret[1] = kahan_sum(<<iter[2], iter[1]>>)

\* kahan_sum returned for a small term followed by a larger one, with a
\* rounded sum.
C10_Witness ==
    /\ ret # <<>>
    /\ Len(iter) = 2
    /\ IsFinite(iter[1])
    /\ IsFinite(iter[2])
    /\ iter[1].m < iter[2].m
    /\ IsFinite(ret[1].err)
    /\ Val(ret[1].err) # 0

\* ------------------------------------------------------------------------
\* C5, C6: accuracy on a large term followed by small terms
\* ------------------------------------------------------------------------
\* A large term (beyond the exactly spaced range) followed by small ones.
LargeThenSmall(s) ==
    /\ Len(s) >= 2
    /\ IsFinite(s[1])
    /\ s[1].m >= Pow2(Precision)
    /\ \A i \in 2..Len(s) : IsFinite(s[i]) /\ s[i].m < Pow2(Precision)

\* Plain left-to-right addition of s does not give the exact total.
Lossy(s) ==
    LET n == NaiveSum(Zero, s)
    IN  ~IsFinite(n) \/ Val(n) # ExactSum(s)

\* The float x is at least as close to the exact value e as the float n is
\* (a non-finite value is farther than every finite one).
AtLeastAsClose(x, n, e) ==
    IsFinite(n) => (IsFinite(x) /\ Abs(Val(x) - e) <= Abs(Val(n) - e))

\* The add of t to the state a computes its compensated term y = b - err and
\* its error term (new_sum - a) - y without rounding, all values finite.
CompensationExactStep(a, t) ==
    LET sw == swap(a.sum, t)
        y  == FSub(sw[2], a.err)
        ns == FAdd(sw[1], y)
        d  == FSub(ns, sw[1])
        ne == FSub(d, y)
    IN  /\ IsFinite(y) /\ IsFinite(ns) /\ IsFinite(d) /\ IsFinite(ne)
        /\ Val(y) = Val(sw[2]) - Val(a.err)
        /\ Val(d) = Val(ns) - Val(sw[1])
        /\ Val(ne) = Val(d) - Val(y)

\* Every add of the fold of s from the state a is such a step.
RECURSIVE CompensationExact(_, _)
CompensationExact(a, s) ==
    IF s = <<>> THEN TRUE
    ELSE /\ CompensationExactStep(a, Head(s))
         /\ CompensationExact(add_assign(a, Head(s)), Tail(s))

\* kahan_sum has returned for a large term followed by small terms whose
\* plain sum is not exact.
LossyCase == ret # <<>> /\ LargeThenSmall(iter) /\ Lossy(iter)

\* C5 as stated: in every such case the sum returned by kahan_sum is at least
\* as close to the exact total as the plain left-to-right sum.
C5_Original ==
    LossyCase =>
        AtLeastAsClose(ret[1].sum, NaiveSum(Zero, iter), ExactSum(iter))

\* C5 amended: in every such case in which each compensated term
\* y = b - err and each error term (new_sum - a) - y is computed without
\* rounding or overflow, the sum returned by kahan_sum is at least as close
\* to the exact total as the plain left-to-right sum (it is the exact total
\* rounded once).
C5_CloserThanNaive ==
    (LossyCase /\ CompensationExact(new, iter)) =>
        /\ AtLeastAsClose(ret[1].sum, NaiveSum(Zero, iter), ExactSum(iter))
        /\ ret[1].sum = Round(ExactSum(iter))

\* Such a case where kahan_sum is strictly closer than the plain sum.
C5_Witness ==
    /\ LossyCase
    /\ CompensationExact(new, iter)
    /\ Len(iter) >= 3
    /\ IsFinite(NaiveSum(Zero, iter))
    /\ Abs(Val(ret[1].sum) - ExactSum(iter))
         < Abs(Val(NaiveSum(Zero, iter)) - ExactSum(iter))

\* C6 as stated: in every such case with a non-zero err, sum + err is
\* strictly closer to the exact total than sum alone.
C6_Original ==
    (LossyCase /\ IsFinite(ret[1].sum) /\ IsFinite(ret[1].err)
       /\ Val(ret[1].err) # 0) =>
        Abs(Val(ret[1].sum) + Val(ret[1].err) - ExactSum(iter))
          < Abs(Val(ret[1].sum) - ExactSum(iter))

\* C6 with only the sign changed (sum - err): still not true of every such
\* case, since a rounded compensated term is not recorded in err.
C6_SignOnly ==
    (LossyCase /\ IsFinite(ret[1].sum) /\ IsFinite(ret[1].err)
       /\ Val(ret[1].err) # 0) =>
        Abs(Val(ret[1].sum) - Val(ret[1].err) - ExactSum(iter))
          < Abs(Val(ret[1].sum) - ExactSum(iter))

\* C6 amended: in every such case in which each compensated term and each
\* error term is computed without rounding or overflow, sum - err is the
\* exact total, hence strictly closer to it than sum alone whenever err is
\* non-zero.
C6_ErrReconstructs ==
    (LossyCase /\ CompensationExact(new, iter)) =>
        /\ Val(ret[1].sum) - Val(ret[1].err) = ExactSum(iter)
        /\ Val(ret[1].err) # 0 =>
              Abs(Val(ret[1].sum) - Val(ret[1].err) - ExactSum(iter))
                < Abs(Val(ret[1].sum) - ExactSum(iter))

\* Such a case with a non-zero err after three or more terms.
C6_Witness ==
    /\ LossyCase
    /\ CompensationExact(new, iter)
    /\ Len(iter) >= 3
    /\ Val(ret[1].err) # 0
    /\ Val(ret[1].sum) - Val(ret[1].err) = ExactSum(iter)

====
